---- MODULE Spec2Model ----
(***************************************************************************)
(* WaveDromProject (python_wavedrom/python/wavedrom_project.py):           *)
(* construction of a project from a file path or raw JSON5 text.           *)
(*                                                                         *)
(* A construction is modelled stage by stage (resolve, parse, classify,    *)
(* extract); the file system is shared with an environment that may        *)
(* remove or replace files between the stages.                             *)
(***************************************************************************)
EXTENDS Integers, Sequences, FiniteSets, TLC

VARIABLES input, pc, content, self, err, trace, fs, fsChanges

vars == <<input, pc, content, self, err, trace, fs, fsChanges>>

\* ------------------------------------------------------------------ bounds
\* longest array enumerated under "signal" / "assign" / "reg"
MaxListLen == 1
\* number of changes other processes make to the file system during a run
MaxFsChanges == 1

Procs == {1, 2}

\* ------------------------------------------------------------------ values
\* A parsed JSON5 value, by Python type: list (n elements), dict (n entries),
\* str, null (None).  "absent" is not a value: it marks a key that the
\* document does not have while documents are enumerated.
V(type, n) == [type |-> type, n |-> n]

Absent == V("absent", 0)

\* the default of dict.get(key, {})
EmptyDictValue == V("dict", 0)

DiagramKeys == {"signal", "assign", "reg"}

AttributeKeys == {"config", "head", "foot"}

Keys == DiagramKeys \cup AttributeKeys

DiagramValues == {V("list", n) : n \in 0..MaxListLen} \cup {V("str", 0), V("null", 0)}

AttributeValues == {V("dict", 0), V("dict", 1), V("null", 0), V("str", 0)}

\* the dict with no key: the placeholder of __init__ and the document "{}"
EmptyDict == [k \in {} |-> Absent]

\* the mapping that has exactly the keys whose value is not Absent
Doc(s, a, r, c, h, f) ==
    LET full == [signal |-> s, assign |-> a, reg |-> r,
                 config |-> c, head |-> h, foot |-> f]
        dom  == {k \in Keys : full[k] # Absent}
    IN  [k \in dom |-> full[k]]

Docs ==
    {Doc(s, a, r, c, h, f) :
        s \in DiagramValues \cup {Absent},
        a \in DiagramValues \cup {Absent},
        r \in DiagramValues \cup {Absent},
        c \in AttributeValues \cup {Absent},
        h \in AttributeValues \cup {Absent},
        f \in AttributeValues \cup {Absent}}

\* ------------------------------------------------------------------- texts
\* A string is a body (a JSON5 value text, or text no grammar accepts, or
\* nothing) followed by a tail of single characters.
Body(kind, doc) == [kind |-> kind, doc |-> doc]

NoBody == Body("none", EmptyDict)

InvalidBody == Body("invalid", EmptyDict)

ArrayBody == Body("array", EmptyDict)

ScalarBody == Body("scalar", EmptyDict)

ObjectBody(doc) == Body("object", doc)

Text(body, tail) == [body |-> body, tail |-> tail]

NoText == Text(NoBody, <<>>)

\* the last character of a body's text
BodyEnd(body) ==
    CASE body.kind = "none"    -> <<>>
      [] body.kind = "object"  -> <<"}">>
      [] body.kind = "array"   -> <<"]">>
      [] body.kind = "scalar"  -> <<"0">>
      [] body.kind = "invalid" -> <<"{">>

\* the trailing characters of a string, all that str.endswith reads
Chars(text) == BodyEnd(text.body) \o text.tail

DotJson5 == <<".", "j", "s", "o", "n", "5">>

DotJson == <<".", "j", "s", "o", "n">>

Suffixes ==
    {<<>>, DotJson5, DotJson,
     <<".", "J", "S", "O", "N", "5">>,
     <<".", "j", "s", "o", "n", "5", "x">>,
     <<".", "j", "s", "o">>,
     <<"j", "s", "o", "n">>}

Stems == {<<"a">>, <<"/", "/">>}

Tails == {st \o su : st \in Stems, su \in Suffixes}

SmallBodies ==
    {InvalidBody, ArrayBody, ScalarBody,
     ObjectBody(Doc(V("list", 0), Absent, Absent, Absent, Absent, Absent)),
     ObjectBody(Doc(V("str", 0), V("list", 0), Absent, Absent, Absent, Absent)),
     ObjectBody(Doc(Absent, V("list", 0), V("str", 0), V("null", 0), Absent, Absent)),
     ObjectBody(Doc(Absent, Absent, V("str", 0), Absent, V("dict", 1), Absent)),
     ObjectBody(Doc(Absent, Absent, Absent, V("dict", 1), Absent, Absent))}

AllBodies == {ObjectBody(d) : d \in Docs} \cup {InvalidBody, ArrayBody, ScalarBody}

\* inputs that are plain document text
DocInputs == {Text(b, <<>>) : b \in AllBodies}

\* inputs with trailing characters: file names, and text that ends like one
NameInputs == {Text(b, t) : b \in SmallBodies \cup {NoBody}, t \in Tails}

Inputs == DocInputs \cup NameInputs

\* ------------------------------------------------------------- file system
FileState(kind, text) == [kind |-> kind, text |-> text]

AbsentFile == FileState("absent", NoText)

FileTexts ==
    {Text(InvalidBody, <<>>), Text(ArrayBody, <<>>),
     Text(ObjectBody(Doc(V("list", 0), Absent, Absent, V("dict", 1), Absent, Absent)), <<>>),
     Text(ObjectBody(Doc(Absent, Absent, Absent, V("dict", 1), Absent, Absent)), <<"/", "/">>)}

FileStates ==
    {AbsentFile, FileState("dir", NoText), FileState("noperm", NoText),
     FileState("badenc", NoText)}
    \cup {FileState("file", t) : t \in FileTexts}

FileAt(f, path) == IF path \in DOMAIN f THEN f[path] ELSE AbsentFile

\* os.path.isfile: a regular file, whether or not it can be read
IsFile(st) == st.kind \in {"file", "noperm", "badenc"}

\* open(path, 'r', encoding='utf-8') and file.read()
OpenAndRead(st) ==
    CASE st.kind = "file"   -> [ok |-> TRUE,  text |-> st.text, cause |-> ""]
      [] st.kind = "absent" -> [ok |-> FALSE, text |-> NoText, cause |-> "FileNotFoundError"]
      [] st.kind = "dir"    -> [ok |-> FALSE, text |-> NoText, cause |-> "IsADirectoryError"]
      [] st.kind = "noperm" -> [ok |-> FALSE, text |-> NoText, cause |-> "PermissionError"]
      [] st.kind = "badenc" -> [ok |-> FALSE, text |-> NoText, cause |-> "UnicodeDecodeError"]

\* ------------------------------------------------------------------ errors
\* An exception: its class, the fixed prefix of its message, the rest of the
\* message's fixed text, and the class of the exception it reports
Error(exc, prefix, detail, cause) ==
    [exc |-> exc, prefix |-> prefix, detail |-> detail, cause |-> cause]

NoErr == Error("none", "", "", "")

FileNotFound == Error("FileNotFoundError", "File not found", "", "")

ReadError(cause) == Error("ValueError", "Error reading file", "", cause)

ParseError == Error("ValueError", "[Parse Error]", "Invalid JSON5 format", "Json5Exception")

RootError == Error("ValueError", "[Semantic]", "The root has to be an Object", "")

SignalShapeError == Error("ValueError", "[Semantic]", "signal object has to be an Array", "")

AssignShapeError == Error("ValueError", "[Semantic]", "assign object has to be an Array", "")

MissingKeyError ==
    Error("ValueError", "[Semantic]", "signal, assign, or reg property is missing", "")

\* ------------------------------------------------------------------ stages
\* str.endswith
EndsWith(s, suffix) ==
    /\ Len(s) >= Len(suffix)
    /\ SubSeq(s, Len(s) - Len(suffix) + 1, Len(s)) = suffix

\* as LooksLikePath, but recognizing .json5 only
LooksLikePath_Json5Only(in) == EndsWith(Chars(in), DotJson5)

LooksLikePath(in) == EndsWith(Chars(in), DotJson5) \/ EndsWith(Chars(in), DotJson)

\* pyjson5.loads: the body's value when nothing, or a line comment, follows it
Pyjson5Loads(text) ==
    LET t == text.tail
        trailingOk == \/ t = <<>>
                      \/ Len(t) >= 2 /\ t[1] = "/" /\ t[2] = "/"
    IN  IF text.body.kind \in {"object", "array", "scalar"} /\ trailingOk
        THEN [ok |-> TRUE, kind |-> text.body.kind, doc |-> text.body.doc]
        ELSE [ok |-> FALSE, kind |-> "none", doc |-> EmptyDict]

\* _get_content, run without interruption on file system f
ResolveContent(in, f) ==
    IF LooksLikePath(in)
    THEN IF IsFile(FileAt(f, in))
         THEN LET r == OpenAndRead(FileAt(f, in))
              IN  IF r.ok THEN [ok |-> TRUE, content |-> r.text, err |-> NoErr]
                  ELSE [ok |-> FALSE, content |-> NoText, err |-> ReadError(r.cause)]
         ELSE [ok |-> FALSE, content |-> NoText, err |-> FileNotFound]
    ELSE [ok |-> TRUE, content |-> in, err |-> NoErr]

\* as ParseJson5, but the parser's exception is not caught
ParseJson5_Uncaught(text) ==
    LET parsed == Pyjson5Loads(text)
    IN  IF ~parsed.ok
        THEN [ok |-> FALSE, source |-> EmptyDict,
              err |-> Error("Json5Exception", "", "", "")]
        ELSE IF parsed.kind # "object"
             THEN [ok |-> FALSE, source |-> EmptyDict, err |-> RootError]
             ELSE [ok |-> TRUE, source |-> parsed.doc, err |-> NoErr]

\* as ParseJson5, but without the isinstance(parsed, dict) check
ParseJson5_NoRootCheck(text) ==
    LET parsed == Pyjson5Loads(text)
    IN  IF ~parsed.ok THEN [ok |-> FALSE, source |-> EmptyDict, err |-> ParseError]
        ELSE [ok |-> TRUE, source |-> parsed.doc, err |-> NoErr]

\* as ParseJson5, but with the isinstance check inside the try block, so that
\* its ValueError is caught and raised again as a parse error
ParseJson5_RootCheckInTry(text) ==
    LET parsed == Pyjson5Loads(text)
    IN  IF ~parsed.ok \/ parsed.kind # "object"
        THEN [ok |-> FALSE, source |-> EmptyDict, err |-> ParseError]
        ELSE [ok |-> TRUE, source |-> parsed.doc, err |-> NoErr]

\* _parse_json5
ParseJson5(text) ==
    LET parsed == Pyjson5Loads(text)
    IN  IF ~parsed.ok THEN [ok |-> FALSE, source |-> EmptyDict, err |-> ParseError]
        ELSE IF parsed.kind # "object"
             THEN [ok |-> FALSE, source |-> EmptyDict, err |-> RootError]
             ELSE [ok |-> TRUE, source |-> parsed.doc, err |-> NoErr]

\* isinstance(value, list)
IsList(v) == v.type = "list"

\* as DetermineDiagramType, but testing the keys in the order reg, assign, signal
DetermineDiagramType_RegFirst(source) ==
    IF "reg" \in DOMAIN source
    THEN [ok |-> TRUE, kind |-> "reg", err |-> NoErr]
    ELSE IF "assign" \in DOMAIN source
    THEN IF ~IsList(source["assign"])
         THEN [ok |-> FALSE, kind |-> "", err |-> AssignShapeError]
         ELSE [ok |-> TRUE, kind |-> "assign", err |-> NoErr]
    ELSE IF "signal" \in DOMAIN source
    THEN IF ~IsList(source["signal"])
         THEN [ok |-> FALSE, kind |-> "", err |-> SignalShapeError]
         ELSE [ok |-> TRUE, kind |-> "signal", err |-> NoErr]
    ELSE [ok |-> FALSE, kind |-> "", err |-> MissingKeyError]

\* as DetermineDiagramType, but a key whose value is not a list is skipped
DetermineDiagramType_FallThrough(source) ==
    IF "signal" \in DOMAIN source /\ IsList(source["signal"])
    THEN [ok |-> TRUE, kind |-> "signal", err |-> NoErr]
    ELSE IF "assign" \in DOMAIN source /\ IsList(source["assign"])
    THEN [ok |-> TRUE, kind |-> "assign", err |-> NoErr]
    ELSE IF "reg" \in DOMAIN source
    THEN [ok |-> TRUE, kind |-> "reg", err |-> NoErr]
    ELSE IF "signal" \in DOMAIN source
    THEN [ok |-> FALSE, kind |-> "", err |-> SignalShapeError]
    ELSE IF "assign" \in DOMAIN source
    THEN [ok |-> FALSE, kind |-> "", err |-> AssignShapeError]
    ELSE [ok |-> FALSE, kind |-> "", err |-> MissingKeyError]

\* as DetermineDiagramType, but returning the empty kind when no key is found
DetermineDiagramType_SilentDefault(source) ==
    IF "signal" \in DOMAIN source
    THEN IF ~IsList(source["signal"])
         THEN [ok |-> FALSE, kind |-> "", err |-> SignalShapeError]
         ELSE [ok |-> TRUE, kind |-> "signal", err |-> NoErr]
    ELSE IF "assign" \in DOMAIN source
    THEN IF ~IsList(source["assign"])
         THEN [ok |-> FALSE, kind |-> "", err |-> AssignShapeError]
         ELSE [ok |-> TRUE, kind |-> "assign", err |-> NoErr]
    ELSE IF "reg" \in DOMAIN source
    THEN [ok |-> TRUE, kind |-> "reg", err |-> NoErr]
    ELSE [ok |-> TRUE, kind |-> "", err |-> NoErr]

\* _determine_diagram_type
DetermineDiagramType(source) ==
    IF "signal" \in DOMAIN source
    THEN IF ~IsList(source["signal"])
         THEN [ok |-> FALSE, kind |-> "", err |-> SignalShapeError]
         ELSE [ok |-> TRUE, kind |-> "signal", err |-> NoErr]
    ELSE IF "assign" \in DOMAIN source
    THEN IF ~IsList(source["assign"])
         THEN [ok |-> FALSE, kind |-> "", err |-> AssignShapeError]
         ELSE [ok |-> TRUE, kind |-> "assign", err |-> NoErr]
    ELSE IF "reg" \in DOMAIN source
    THEN [ok |-> TRUE, kind |-> "reg", err |-> NoErr]
    ELSE [ok |-> FALSE, kind |-> "", err |-> MissingKeyError]

\* Python truth value of a parsed value
Truthy(v) == ~(v.type = "null" \/ (v.type \in {"dict", "list"} /\ v.n = 0))

\* as DictGet, but written d.get(key) or default
DictGet_OrDefault(d, key, default) ==
    IF key \in DOMAIN d /\ Truthy(d[key]) THEN d[key] ELSE default

\* dict.get(key, default)
DictGet(d, key, default) == IF key \in DOMAIN d THEN d[key] ELSE default

\* the fields __init__ sets before it runs any stage
NewProject ==
    [source |-> EmptyDict, diagram_type |-> "",
     config |-> EmptyDictValue, head |-> EmptyDictValue, foot |-> EmptyDictValue]

\* ----------------------------------------------------------------- actions
Raise(p, e) ==
    /\ pc' = [pc EXCEPT ![p] = "raised"]
    /\ err' = [err EXCEPT ![p] = e]

\* _get_content up to and including os.path.isfile
GetContent(p) ==
    /\ pc[p] = "get_content"
    /\ IF LooksLikePath(input[p])
       THEN /\ trace' = [trace EXCEPT ![p] = @ \o <<"endswith", "isfile">>]
            /\ IF IsFile(FileAt(fs, input[p]))
               THEN /\ pc' = [pc EXCEPT ![p] = "open"]
                    /\ UNCHANGED err
               ELSE Raise(p, FileNotFound)
            /\ UNCHANGED content
       ELSE /\ trace' = [trace EXCEPT ![p] = @ \o <<"endswith">>]
            /\ content' = [content EXCEPT ![p] = input[p]]
            /\ pc' = [pc EXCEPT ![p] = "parse"]
            /\ UNCHANGED err
    /\ UNCHANGED <<input, self, fs, fsChanges>>

\* as ReadFile, but without the try/except around the open and the read
ReadFile_Unwrapped(p) ==
    /\ pc[p] = "open"
    /\ trace' = [trace EXCEPT ![p] = @ \o <<"open">>]
    /\ LET r == OpenAndRead(FileAt(fs, input[p]))
       IN  IF r.ok
           THEN /\ content' = [content EXCEPT ![p] = r.text]
                /\ pc' = [pc EXCEPT ![p] = "parse"]
                /\ UNCHANGED err
           ELSE /\ Raise(p, Error(r.cause, "", "", ""))
                /\ UNCHANGED content
    /\ UNCHANGED <<input, self, fs, fsChanges>>

\* _get_content: the open and the read, after os.path.isfile said yes
ReadFile(p) ==
    /\ pc[p] = "open"
    /\ trace' = [trace EXCEPT ![p] = @ \o <<"open">>]
    /\ LET r == OpenAndRead(FileAt(fs, input[p]))
       IN  IF r.ok
           THEN /\ content' = [content EXCEPT ![p] = r.text]
                /\ pc' = [pc EXCEPT ![p] = "parse"]
                /\ UNCHANGED err
           ELSE /\ Raise(p, ReadError(r.cause))
                /\ UNCHANGED content
    /\ UNCHANGED <<input, self, fs, fsChanges>>

\* as Parse, but with the content kept in one place shared by all constructions
\* (a class attribute), where the first construction's content is found
Parse_SharedContent(p) ==
    /\ pc[p] = "parse"
    /\ trace' = [trace EXCEPT ![p] =
                    @ \o (IF Pyjson5Loads(content[CHOOSE q \in Procs : pc[q] # "unused"]).ok THEN <<"loads", "isdict">>
                                                 ELSE <<"loads">>)]
    /\ LET r == ParseJson5(content[CHOOSE q \in Procs : pc[q] # "unused"])
       IN  IF r.ok
           THEN /\ self' = [self EXCEPT ![p].source = r.source]
                /\ pc' = [pc EXCEPT ![p] = "classify"]
                /\ UNCHANGED err
           ELSE /\ Raise(p, r.err)
                /\ UNCHANGED self
    /\ UNCHANGED <<input, content, fs, fsChanges>>

\* self.source = self._parse_json5(content)
Parse(p) ==
    /\ pc[p] = "parse"
    /\ trace' = [trace EXCEPT ![p] =
                    @ \o (IF Pyjson5Loads(content[p]).ok THEN <<"loads", "isdict">>
                                                 ELSE <<"loads">>)]
    /\ LET r == ParseJson5(content[p])
       IN  IF r.ok
           THEN /\ self' = [self EXCEPT ![p].source = r.source]
                /\ pc' = [pc EXCEPT ![p] = "classify"]
                /\ UNCHANGED err
           ELSE /\ Raise(p, r.err)
                /\ UNCHANGED self
    /\ UNCHANGED <<input, content, fs, fsChanges>>

\* self.diagram_type = self._determine_diagram_type()
Classify(p) ==
    /\ pc[p] = "classify"
    /\ trace' = [trace EXCEPT ![p] = @ \o <<"classify">>]
    /\ LET r == DetermineDiagramType(self[p].source)
       IN  IF r.ok
           THEN /\ self' = [self EXCEPT ![p].diagram_type = r.kind]
                /\ pc' = [pc EXCEPT ![p] = "extract"]
                /\ UNCHANGED err
           ELSE /\ Raise(p, r.err)
                /\ UNCHANGED self
    /\ UNCHANGED <<input, content, fs, fsChanges>>

\* self._extract_attributes(), and the return of __init__
ExtractAttributes(p) ==
    /\ pc[p] = "extract"
    /\ trace' = [trace EXCEPT ![p] = @ \o <<"extract">>]
    /\ self' = [self EXCEPT
                  ![p].config = DictGet(self[p].source, "config", EmptyDictValue),
                  ![p].head = DictGet(self[p].source, "head", EmptyDictValue),
                  ![p].foot = DictGet(self[p].source, "foot", EmptyDictValue)]
    /\ pc' = [pc EXCEPT ![p] = "returned"]
    /\ UNCHANGED <<input, content, err, fs, fsChanges>>

\* another process creates, removes or replaces a file
FsChange ==
    /\ fsChanges < MaxFsChanges
    /\ \E path \in DOMAIN fs, st \in FileStates :
          /\ st # fs[path]
          /\ fs' = [fs EXCEPT ![path] = st]
    /\ fsChanges' = fsChanges + 1
    /\ UNCHANGED <<input, pc, content, self, err, trace>>

Step(p) ==
    \/ GetContent(p)
    \/ ReadFile(p)
    \/ Parse(p)
    \/ Classify(p)
    \/ ExtractAttributes(p)

Next ==
    \/ \E p \in Procs : Step(p)
    \/ FsChange

\* the state in which the constructions ins[p] (p in DOMAIN ins) have begun
Begin(ins, f) ==
    /\ input = [p \in Procs |-> IF p \in DOMAIN ins THEN ins[p] ELSE NoText]
    /\ pc = [p \in Procs |-> IF p \in DOMAIN ins THEN "get_content" ELSE "unused"]
    /\ content = [p \in Procs |-> NoText]
    /\ self = [p \in Procs |-> NewProject]
    /\ err = [p \in Procs |-> NoErr]
    /\ trace = [p \in Procs |-> <<>>]
    /\ fs = f
    /\ fsChanges = 0

\* one construction, on any input
Init ==
    \E in \in Inputs :
        \E f \in [{in} \cap NameInputs -> FileStates] :
            Begin([p \in {1} |-> in], f)

Spec == Init /\ [][Next]_vars

\* two constructions at once, on a few inputs of every kind
PairInputs ==
    {Text(NoBody, <<"a">> \o DotJson5),
     Text(NoBody, <<"a">> \o DotJson),
     Text(ObjectBody(Doc(V("list", 0), Absent, Absent, Absent, Absent, Absent)),
          <<"/", "/">> \o DotJson5),
     Text(ObjectBody(Doc(V("list", 0), Absent, Absent, Absent, Absent, Absent)), <<>>),
     Text(ObjectBody(Doc(V("str", 0), V("list", 0), Absent, Absent, Absent, Absent)), <<>>),
     Text(ObjectBody(Doc(Absent, Absent, Absent, V("dict", 1), Absent, Absent)), <<>>),
     Text(ArrayBody, <<>>),
     Text(InvalidBody, <<>>)}

PairFileStates ==
    {AbsentFile, FileState("noperm", NoText)}
    \cup {FileState("file", t) : t \in FileTexts}

InitPair ==
    \E in1 \in PairInputs, in2 \in PairInputs :
        \E f \in [{in1, in2} \cap NameInputs -> PairFileStates] :
            Begin([p \in {1, 2} |-> IF p = 1 THEN in1 ELSE in2], f)

SpecPair == InitPair /\ [][Next]_vars

\* ------------------------------------------------------------ observations
Returned(p) == pc[p] = "returned"

Raised(p) == pc[p] = "raised"

Ran(p, stage) == \E i \in 1..Len(trace[p]) : trace[p][i] = stage

LastStage(p) == trace[p][Len(trace[p])]

\* what the caller of the constructor gets: a project, or an exception
Outcome(p) ==
    IF Returned(p) THEN [project |-> self[p], err |-> NoErr]
                   ELSE [project |-> NewProject, err |-> err[p]]

\* __init__ run from start to end without interruption on file system f
Construct(in, f) ==
    LET c == ResolveContent(in, f)
        s == ParseJson5(c.content)
        k == DetermineDiagramType(s.source)
    IN  IF ~c.ok THEN [project |-> NewProject, err |-> c.err]
        ELSE IF ~s.ok THEN [project |-> NewProject, err |-> s.err]
        ELSE IF ~k.ok THEN [project |-> NewProject, err |-> k.err]
        ELSE [project |->
                [source |-> s.source, diagram_type |-> k.kind,
                 config |-> DictGet(s.source, "config", EmptyDictValue),
                 head |-> DictGet(s.source, "head", EmptyDictValue),
                 foot |-> DictGet(s.source, "foot", EmptyDictValue)],
              err |-> NoErr]

\* ------------------------------------------------------------------ claims
\* the key that wins classification: the first present of signal, assign, reg
Winner(source) ==
    IF "signal" \in DOMAIN source THEN "signal"
    ELSE IF "assign" \in DOMAIN source THEN "assign"
    ELSE IF "reg" \in DOMAIN source THEN "reg"
    ELSE "none"

\* C1: classification is priority-ordered.  A returned project has exactly
\* one kind: signal iff the key signal is present, assign iff signal is absent
\* and assign present, reg iff both are absent and reg present.  Classification
\* of a mapping with none of the three keys fails with the missing-key
\* SemanticError, and that error is raised for no other mapping.
C1_PriorityOrder ==
    \A p \in Procs :
        LET src == self[p].source
            k   == self[p].diagram_type
        IN  /\ Returned(p) =>
                /\ k \in DiagramKeys
                /\ (k = "signal") <=> ("signal" \in DOMAIN src)
                /\ (k = "assign") <=> ("signal" \notin DOMAIN src /\ "assign" \in DOMAIN src)
                /\ (k = "reg") <=> /\ "signal" \notin DOMAIN src
                                   /\ "assign" \notin DOMAIN src
                                   /\ "reg" \in DOMAIN src
            /\ Ran(p, "classify") =>
                ((DOMAIN src \cap DiagramKeys = {})
                    <=> (Raised(p) /\ err[p] = MissingKeyError))
            /\ (Raised(p) /\ err[p] = MissingKeyError) =>
                (err[p].exc = "ValueError" /\ err[p].prefix = "[Semantic]")

\* C1 witness: a project whose document has all of signal, assign and reg is
\* returned with kind signal
C1_Witness ==
    \E p \in Procs :
        /\ Returned(p)
        /\ DiagramKeys \subseteq DOMAIN self[p].source
        /\ self[p].diagram_type = "signal"

\* C2: shape validation is applied to the winning key only.  Once
\* classification has run, a shape SemanticError was raised iff the winning key
\* is signal or assign and its value is not a list; the error names the winning
\* key; there is no fall-through to a lower-priority key, a value under a
\* losing key is never rejected, and when reg wins nothing is rejected.
C2_ShapeOfWinnerOnly ==
    \A p \in Procs :
        Ran(p, "classify") =>
            LET src == self[p].source
                w   == Winner(src)
                bad == w \in {"signal", "assign"} /\ src[w].type # "list"
            IN  /\ bad <=> (Raised(p) /\ err[p] \in {SignalShapeError, AssignShapeError})
                /\ (bad /\ w = "signal") => err[p] = SignalShapeError
                /\ (bad /\ w = "assign") => err[p] = AssignShapeError
                /\ (w # "none" /\ ~bad) => ~Raised(p)
                /\ (w = "reg") => ~Raised(p)

\* C2 witness: a non-list signal is rejected although a list is under assign
C2_Witness ==
    \E p \in Procs :
        /\ Raised(p)
        /\ err[p] = SignalShapeError
        /\ "assign" \in DOMAIN self[p].source
        /\ self[p].source["assign"].type = "list"

\* the suffix test of the claim: the input's last characters are .json5 or .json
Suffixed(in) ==
    LET c == Chars(in)
        n == Len(c)
    IN  \/ n >= 6 /\ <<c[n - 5], c[n - 4], c[n - 3], c[n - 2], c[n - 1], c[n]>> = DotJson5
        \/ n >= 5 /\ <<c[n - 4], c[n - 3], c[n - 2], c[n - 1], c[n]>> = DotJson

\* C3: an input that ends in .json5 or .json (exact case) and names no
\* existing file when it is resolved fails with FileNotFoundError, and the
\* parser is never invoked for it; this includes document text with such an
\* ending.  An input without such an ending is never checked for existence or
\* opened, and is handed to the parser as it is.
C3_Resolve ==
    \A p \in Procs :
        /\ (pc[p] = "get_content" /\ Suffixed(input[p]) /\ ~IsFile(FileAt(fs, input[p])))
            => (pc'[p] # pc[p] => /\ pc'[p] = "raised"
                                  /\ err'[p] = FileNotFound
                                  /\ ~Ran(p, "loads")')
        /\ (Raised(p) /\ err[p] = FileNotFound) => (pc'[p] = "raised" /\ trace'[p] = trace[p])
        /\ (pc[p] = "get_content" /\ ~Suffixed(input[p]))
            => (pc'[p] # pc[p] => /\ pc'[p] = "parse"
                                  /\ content'[p] = input[p]
                                  /\ ~Ran(p, "isfile")'
                                  /\ ~Ran(p, "open")')
        /\ (pc[p] = "parse" /\ ~Suffixed(input[p]) /\ Ran(p, "loads")')
            => (content[p] = input[p] /\ ~Ran(p, "isfile")' /\ ~Ran(p, "open")')

C3_NotFound == [][C3_Resolve]_vars

\* C3 witness: document text that ends in .json5 was taken for a missing file
C3_Witness ==
    \E p \in Procs :
        /\ Raised(p)
        /\ err[p] = FileNotFound
        /\ input[p].body.kind = "object"
        /\ ~Ran(p, "loads")

C5_KindDistinctFromParseError ==
    \A p \in Procs :
        LET r == Pyjson5Loads(content[p])
        IN  (Ran(p, "loads") /\ r.ok /\ r.kind # "object")
                => /\ Raised(p)
                   /\ err[p].detail = "The root has to be an Object"
                   /\ ~Ran(p, "classify")
                   /\ err[p].exc # ParseError.exc

\* C5 amended: whenever the text parses to a value that is not a mapping,
\* construction fails with the [Semantic] root-must-be-an-object error;
\* classification never runs, so the error is not the missing-key error.  The
\* error has the exception class of a parse error, ValueError, and differs
\* from one in its message prefix only.
C5_RootNotObject ==
    \A p \in Procs :
        LET r == Pyjson5Loads(content[p])
        IN  (Ran(p, "loads") /\ r.ok /\ r.kind # "object")
                => /\ Raised(p)
                   /\ err[p].exc = "ValueError"
                   /\ err[p].prefix = "[Semantic]"
                   /\ err[p].detail = "The root has to be an Object"
                   /\ err[p] # MissingKeyError
                   /\ err[p].exc = ParseError.exc
                   /\ err[p].prefix # ParseError.prefix
                   /\ ~Ran(p, "classify")
                   /\ self[p] = NewProject

\* C5 witness: an array at the root was rejected
C5_Witness ==
    \E p \in Procs :
        /\ Raised(p)
        /\ err[p] = RootError
        /\ content[p].body.kind = "array"

\* C6: in every returned project, whatever its kind, each of config, head and
\* foot is the document's value under that key when the key is present (of any
\* type) and the empty mapping when it is absent.
C6_Attributes ==
    \A p \in Procs :
        Returned(p) =>
            LET src == self[p].source
                field == [config |-> self[p].config, head |-> self[p].head,
                          foot |-> self[p].foot]
            IN  \A key \in AttributeKeys :
                    /\ key \in DOMAIN src => field[key] = src[key]
                    /\ key \notin DOMAIN src => field[key] = EmptyDictValue

\* C6 witness: a reg project keeps a null config and a string head, and has
\* the empty mapping as foot
C6_Witness ==
    \E p \in Procs :
        /\ Returned(p)
        /\ self[p].diagram_type = "reg"
        /\ self[p].config = V("null", 0)
        /\ self[p].head = V("str", 0)
        /\ "foot" \notin DOMAIN self[p].source
        /\ self[p].foot = EmptyDictValue

\* what made a construction fail, read off the last stage it ran
Trigger(p) ==
    CASE LastStage(p) = "isfile" -> "missing file"
      [] LastStage(p) = "open" -> "failed read"
      [] LastStage(p) = "loads" -> "invalid text"
      [] LastStage(p) \in {"isdict", "classify"} -> "semantic"
      [] OTHER -> "none"

\* C7 as stated: failures with different triggers are signalled as different
\* kinds, where the kind a caller can branch on is the exception class.
C7_FourKindsDistinct ==
    \A p \in Procs, q \in Procs :
        (Raised(p) /\ Raised(q) /\ Trigger(p) # Trigger(q))
            => err[p].exc # err[q].exc

\* C7 amended: a failed construction raises one of two exception classes,
\* FileNotFoundError for a missing file and ValueError for a failed read, for
\* invalid text and for every semantic failure; the message prefix (File not
\* found, Error reading file, [Parse Error], [Semantic]) is determined by the
\* trigger and differs between any two triggers.
C7_TwoClassesFourPrefixes ==
    /\ \A p \in Procs :
        /\ Raised(p) =>
            CASE Trigger(p) = "missing file" ->
                    err[p].exc = "FileNotFoundError" /\ err[p].prefix = "File not found"
              [] Trigger(p) = "failed read" ->
                    err[p].exc = "ValueError" /\ err[p].prefix = "Error reading file"
              [] Trigger(p) = "invalid text" ->
                    err[p].exc = "ValueError" /\ err[p].prefix = "[Parse Error]"
              [] Trigger(p) = "semantic" ->
                    err[p].exc = "ValueError" /\ err[p].prefix = "[Semantic]"
              [] OTHER -> FALSE
        /\ ~Raised(p) => err[p] = NoErr
    /\ \A p \in Procs, q \in Procs :
        (Raised(p) /\ Raised(q) /\ Trigger(p) # Trigger(q))
            => err[p].prefix # err[q].prefix

\* C7 witness: a parse failure and a semantic failure, both ValueError
C7_Witness ==
    \E p \in Procs, q \in Procs :
        /\ Raised(p) /\ Trigger(p) = "invalid text"
        /\ Raised(q) /\ Trigger(q) = "semantic"
        /\ err[p].exc = err[q].exc
        /\ err[p].prefix # err[q].prefix

IsPrefix(s, t) == Len(s) <= Len(t) /\ SubSeq(t, 1, Len(s)) = s

FileStages == <<"endswith", "isfile", "open", "loads", "isdict", "classify", "extract">>

TextStages == <<"endswith", "loads", "isdict", "classify", "extract">>

PythonTypes == {"list", "dict", "str", "null"}

\* the project and the stages of a construction, wherever it stands
C8_State ==
    \A p \in Procs :
        /\ IsPrefix(trace[p], FileStages) \/ IsPrefix(trace[p], TextStages)
        /\ Raised(p) <=> err[p] # NoErr
        /\ Returned(p) =>
            /\ trace[p] \in {FileStages, TextStages}
            /\ Pyjson5Loads(content[p]).kind = "object"
            /\ self[p].source = Pyjson5Loads(content[p]).doc
            /\ self[p].diagram_type \in DiagramKeys
            /\ self[p].diagram_type \in DOMAIN self[p].source
            /\ self[p].diagram_type \in {"signal", "assign"}
                => self[p].source[self[p].diagram_type].type = "list"
            /\ self[p].config.type \in PythonTypes
            /\ self[p].head.type \in PythonTypes
            /\ self[p].foot.type \in PythonTypes

\* nothing runs after a failure, and nothing after the return
C8_Step ==
    \A p \in Procs :
        pc[p] \in {"raised", "returned"}
            => /\ pc'[p] = pc[p]
               /\ trace'[p] = trace[p]
               /\ self'[p] = self[p]
               /\ err'[p] = err[p]

\* C8: construction is all-or-nothing.  The stages run in the order resolve,
\* parse, root check, classify, extract; a failure ends the construction with
\* an error and no stage runs after it; a project is returned only after every
\* stage ran without error, and then its source is the parsed mapping, its
\* kind is one of signal, assign, reg and a key of source (with a list under
\* signal and assign), and config, head and foot are set.
C8_AllOrNothing == []C8_State /\ [][C8_Step]_vars

\* C8 witness: a construction failed in classification, after source was
\* assigned and before the kind was
C8_Witness ==
    \E p \in Procs :
        /\ Raised(p)
        /\ LastStage(p) = "classify"
        /\ self[p].source # EmptyDict
        /\ self[p].diagram_type = ""

\* what C9 says of one step of the open and read
C9_Step ==
    \A p \in Procs :
        LET r == OpenAndRead(FileAt(fs, input[p]))
        IN  /\ (pc[p] = "open" /\ pc'[p] # "open" /\ ~r.ok)
                => /\ pc'[p] = "raised"
                   /\ err'[p].exc = "ValueError"
                   /\ err'[p].prefix = "Error reading file"
                   /\ err'[p].cause = r.cause
                   /\ ~Ran(p, "loads")'
            /\ (Raised(p) /\ LastStage(p) = "open")
                => (pc'[p] = "raised" /\ trace'[p] = trace[p] /\ err'[p] = err[p])

\* C9: once os.path.isfile has said yes, a failure of the open or the read is
\* raised as the ValueError "Error reading file" that reports the cause; it is
\* never the cause itself nor FileNotFoundError, and the parser is not
\* invoked.  So it is when the file is removed or replaced between the
\* existence check and the open.
C9_ReadFailureWrapped == [][C9_Step]_vars

\* C9 witness: the file was removed between the existence check and the open
C9_Witness ==
    \E p \in Procs :
        /\ Raised(p)
        /\ LastStage(p) = "open"
        /\ err[p] = ReadError("FileNotFoundError")
        /\ fsChanges > 0

Done(p) == pc[p] \in {"returned", "raised"}

\* C10: with the file system unchanged, every finished construction has the
\* outcome of running the constructor alone on its input, however the
\* constructions were interleaved; so two constructions on the same input have
\* the same outcome, the same error or projects with the same fields.
C10_Deterministic ==
    fsChanges = 0 =>
        /\ \A p \in Procs : Done(p) => Outcome(p) = Construct(input[p], fs)
        /\ \A p \in Procs, q \in Procs :
            (Done(p) /\ Done(q) /\ input[p] = input[q]) => Outcome(p) = Outcome(q)

\* C10 witness: two constructions read the same file and both returned
C10_Witness ==
    \E p \in Procs, q \in Procs :
        /\ p # q
        /\ Returned(p) /\ Returned(q)
        /\ input[p] = input[q]
        /\ Ran(p, "open") /\ Ran(q, "open")
        /\ fsChanges = 0

====
